---- MODULE Spec2Model ----
(***************************************************************************)
(* A model of ut99-linux-amd64-installer.py: the sequential installer      *)
(* main() with its helpers check_7z, check_curl, download_file, md5sum,    *)
(* get_linux_amd64_download_url and process_uz_files.  The environment     *)
(* (installed tools, the filesystem, curl / 7z / ucc exit codes, the       *)
(* release metadata served, the random suffix) is chosen                   *)
(* nondeterministically; the control flow is the script's.                 *)
(***************************************************************************)
EXTENDS Integers, Sequences, FiniteSets, TLC

(* ------------------------------ bounds --------------------------------- *)

\* Largest number of asset descriptors in a release-metadata document.
MaxAssets == 2

\* Largest number of *.uz files the glob under Maps/ can return.
MaxUz == 3

(* --------------------------- Python values ----------------------------- *)

\* Python's None.
None == [type |-> "NoneType"]

\* A Python str used as an opaque value (a URL).
Str(s) == [type |-> "str", value |-> s]

\* The result slot of a call that has not returned yet.
Pending == [type |-> "pending"]

\* An exception leaving a function.
Raised(e) == [type |-> "exception", name |-> e]

\* dict.get(key, default)
Get(d, key, default) == IF key \in DOMAIN d THEN d[key] ELSE default

\* Python's truthiness test "not v" for a value that is None or a str.
Not(v) == v = None \/ v = Str("")

\* needle in haystack, for two strings held as sequences of characters.
In(needle, haystack) ==
    \E k \in 1..(Len(haystack) - Len(needle) + 1) :
        SubSeq(haystack, k, k + Len(needle) - 1) = needle

(* ------------------------------ md5sum --------------------------------- *)

\* Expected MD5SUM of the iso file.
expected_iso_md5 ==
    <<"e","5","1","2","7","5","3","7","f","4","4","0","8","6","f","5",
      "e","d","3","6","a","9","d","2","9","f","9","9","2","c","0","0">>

\* The byte contents a downloaded ut99.iso can have: the genuine image (named,
\* not spelled out) and four short byte strings.
Files == {"UT_GOTY_CD1", "", "a", "abc", "message digest"}

\* hashlib.md5 over the whole file, as lowercase hex (hexdigest()).  The hash
\* itself is a table of the real digests of the contents in Files.
md5sum(filename) ==
    CASE filename = "UT_GOTY_CD1" -> expected_iso_md5
      [] filename = "" ->
           <<"d","4","1","d","8","c","d","9","8","f","0","0","b","2","0","4",
             "e","9","8","0","0","9","9","8","e","c","f","8","4","2","7","e">>
      [] filename = "a" ->
           <<"0","c","c","1","7","5","b","9","c","0","f","1","b","6","a","8",
             "3","1","c","3","9","9","e","2","6","9","7","7","2","6","6","1">>
      [] filename = "abc" ->
           <<"9","0","0","1","5","0","9","8","3","c","d","2","4","f","b","0",
             "d","6","9","6","3","f","7","d","2","8","e","1","7","f","7","2">>
      [] filename = "message digest" ->
           <<"f","9","6","b","6","9","7","d","7","c","b","7","9","3","8","d",
             "5","2","5","a","2","f","3","1","a","a","f","1","6","1","d","0">>

\* Letter case of hexadecimal digits.
UpperChar(c) ==
    CASE c = "a" -> "A" [] c = "b" -> "B" [] c = "c" -> "C"
      [] c = "d" -> "D" [] c = "e" -> "E" [] c = "f" -> "F"
      [] OTHER -> c

LowerChar(c) ==
    CASE c = "A" -> "a" [] c = "B" -> "b" [] c = "C" -> "c"
      [] c = "D" -> "d" [] c = "E" -> "e" [] c = "F" -> "f"
      [] OTHER -> c

Upper(s) == [k \in 1..Len(s) |-> UpperChar(s[k])]

Lower(s) == [k \in 1..Len(s) |-> LowerChar(s[k])]

\* Every other character in upper case.
Mixed(s) == [k \in 1..Len(s) |-> IF k % 2 = 1 THEN UpperChar(s[k]) ELSE s[k]]

\* Faulty variant of Md5Mismatch: the comparison folds letter case first.
Md5MismatchFolded(actual_md5, expected) == Lower(actual_md5) # Lower(expected)

\* if actual_md5 != expected_iso_md5
Md5Mismatch(actual_md5, expected) == actual_md5 # expected

(* ------------------- get_linux_amd64_download_url ---------------------- *)

\* The platform tag the resolver looks for.
Tag == <<"L","i","n","u","x","-","a","m","d","6","4">>

\* if "Linux-amd64" in asset.get("name", "")
AssetMatches(asset) == In(Tag, Get(asset, "name", <<>>))

\* Faulty variant of ScanAssets: the last matching asset wins.
RECURSIVE ScanAssetsLast(_)
ScanAssetsLast(assets) ==
    IF assets = <<>> THEN None
    ELSE IF AssetMatches(assets[Len(assets)])
         THEN Get(assets[Len(assets)], "browser_download_url", None)
         ELSE ScanAssetsLast(SubSeq(assets, 1, Len(assets) - 1))

\* for asset in ...: if match: return asset.get("browser_download_url");
\* return None
RECURSIVE ScanAssets(_)
ScanAssets(assets) ==
    IF assets = <<>> THEN None
    ELSE IF AssetMatches(Head(assets))
         THEN Get(Head(assets), "browser_download_url", None)
         ELSE ScanAssets(Tail(assets))

\* The function on a parsed response body: data.get("assets", []) scanned.
get_linux_amd64_download_url(data) == ScanAssets(Get(data, "assets", <<>>))

\* Asset names served: with the tag (alone, inside a longer name), with the tag
\* in another letter case, with the tag cut short, another platform, empty.
Names ==
    { Tag,
      <<"F","o","o","-","L","i","n","u","x","-","a","m","d","6","4",".","t","a","r",".","b","z","2">>,
      <<"l","i","n","u","x","-","a","m","d","6","4">>,
      <<"L","i","n","u","x","-","a","m","d","6">>,
      <<"F","o","o","-","W","i","n","d","o","w","s",".","z","i","p">>,
      <<>> }

Urls == {Str("https://host/A"), Str("https://host/B")}

\* Asset descriptors: both fields, or one of them missing.
Descriptors ==
    {[name |-> n, browser_download_url |-> u] : n \in Names, u \in Urls}
    \cup {[name |-> n] : n \in Names}
    \cup {[browser_download_url |-> u] : u \in Urls}

\* Sequences of at most n descriptors.
SeqUpTo(S, n) == UNION {[1..k -> S] : k \in 0..n}

\* Release-metadata documents: with an "assets" list, or without the key.
Docs == {[assets |-> a] : a \in SeqUpTo(Descriptors, MaxAssets)} \cup {[tag_name |-> "v469e"]}

\* The documents the end-to-end run is served.
MainDocs ==
    { [assets |-> <<>>],
      [assets |-> <<[name |-> <<"F","o","o","-","W","i","n","d","o","w","s",".","z","i","p">>,
                     browser_download_url |-> Str("https://host/B")],
                    [name |-> <<"F","o","o","-","L","i","n","u","x","-","a","m","d","6","4",".","t","a","r",".","b","z","2">>,
                     browser_download_url |-> Str("https://host/A")]>>],
      [assets |-> <<[name |-> Tag]>>] }

(* ------------------------------- state --------------------------------- *)

VARIABLES
    pc,            \* position in main() / process_uz_files()
    status,        \* "running", "exit0", "exit1" (sys.exit(1)), "traceback"
    has7z,         \* shutil.which("7z") is not None
    hasCurl,       \* shutil.which("curl") is not None
    fs0,           \* the filesystem before the run: [root, backups]
    root,          \* ~/UnrealTournament: "absent", "old" (pre-existing), "fresh"
    backups,       \* ~/UnrealTournament_<suffix>, per suffix
    tree,          \* the paths that exist below the fresh install root
    iso,           \* the bytes of Installer/ut99.iso
    expected,      \* the expected digest the image is compared with
    doc,           \* the parsed release-metadata response
    patch_url,     \* the resolver's result
    i,             \* index of the configuration-file download loop
    uzOnDisk,      \* number of *.uz files below Maps/
    ucc0,          \* System64/ucc-bin-amd64 as extracted
    uccMode,       \* System64/ucc-bin-amd64 now: "missing", "noexec", "exec"
    chmodResult,   \* os.chmod in process_uz_files: "none", "ok", "failed"
    uz_files,      \* the glob's result
    done,          \* the loop counter of process_uz_files
    invoked,       \* the files ucc was run on, in order
    uzFailed,      \* the files on which ucc exited non-zero
    errLogged,     \* the files for which "Error decompressing" was logged
    ret,           \* what process_uz_files returned
    copyResult,    \* step 8: "none", "ok", "first_failed", "second_failed"
    desktop_file,  \* the launcher: "absent", or written and "executable"
    banner,        \* INSTALL COMPLETED was printed
    stages,        \* the pipeline stages started, in order
    failed,        \* the stages whose operation failed
    cond,          \* the fatal conditions that have occurred
    net            \* the network requests issued

envVars == <<has7z, hasCurl, fs0, expected>>

dirVars == <<root, backups>>

uzVars == <<uzOnDisk, ucc0, uccMode, chmodResult, uz_files, done, invoked,
            uzFailed, errLogged, ret>>

finVars == <<copyResult, desktop_file, banner>>

histVars == <<stages, failed, cond>>

vars == <<pc, status, envVars, dirVars, tree, iso, doc, patch_url, i, uzVars,
          finVars, histVars, net>>

\* The random suffixes random.choices can produce, cut down to two.
Suffixes == {"aaaaaaaa", "zzzzzzz9"}

\* What can already sit at ~/UnrealTournament_<suffix> before the run.
BackupKinds == {"absent", "emptydir", "fulldir", "file"}

\* Exit codes of curl, 7z and ucc.
ReturnCodes == {0, 1, 2}

\* for filename in ["UnrealTournament.ini", "User.ini", "skip.txt"]
CfgFiles == <<"UnrealTournament.ini", "User.ini", "skip.txt">>

\* The image contents the end-to-end run downloads: genuine, or corrupted.
IsoContents == {"UT_GOTY_CD1", "abc"}

\* What no step before step 4 has touched yet.
Untouched ==
    /\ status = "running"
    /\ doc = [assets |-> <<>>]
    /\ patch_url = None
    /\ i = 1
    /\ uzOnDisk = 0
    /\ ucc0 = "missing"
    /\ uccMode = "missing"
    /\ chmodResult = "none"
    /\ uz_files = <<>>
    /\ done = 0
    /\ invoked = <<>>
    /\ uzFailed = {}
    /\ errLogged = {}
    /\ ret = Pending
    /\ copyResult = "none"
    /\ desktop_file = "absent"
    /\ banner = FALSE
    /\ failed = {}
    /\ cond = {}

\* The state main() starts from, but for the environment.
Start ==
    /\ pc = "check_7z"
    /\ tree = {}
    /\ iso = ""
    /\ stages = <<>>
    /\ net = {}
    /\ Untouched

\* A machine with both tools and no earlier installation, after step 1.
CleanMachine ==
    /\ has7z = TRUE
    /\ hasCurl = TRUE
    /\ root = "fresh"
    /\ backups = [s \in Suffixes |-> "absent"]
    /\ fs0 = [root |-> "absent", backups |-> backups]
    /\ tree = {"Installer", "System", "Installer/ut99.iso"}
    /\ net = {"ut99.iso"}

\* The expected digests tried: the digest of each content in lower case, in
\* upper case, and with every other character in upper case.
Digests ==
    UNION {{md5sum(f), Upper(md5sum(f)), Mixed(md5sum(f))} : f \in Files}

\* Just before step 3, for any downloaded image and any expected digest.
InitVerify ==
    /\ pc = "verify"
    /\ CleanMachine
    /\ Untouched
    /\ stages = <<"fetch-image">>
    /\ iso \in Files
    /\ expected \in Digests

\* Just before step 4, the genuine image downloaded and verified.
InitResolve ==
    /\ pc = "resolve"
    /\ CleanMachine
    /\ Untouched
    /\ stages = <<"fetch-image", "verify-checksum">>
    /\ iso = "UT_GOTY_CD1"
    /\ expected = expected_iso_md5

Init ==
    /\ Start
    /\ has7z \in BOOLEAN
    /\ hasCurl \in BOOLEAN
    /\ root \in {"absent", "old"}
    /\ backups \in [Suffixes -> BackupKinds]
    /\ fs0 = [root |-> root, backups |-> backups]
    /\ expected = expected_iso_md5

(* ------------------------------ helpers -------------------------------- *)

\* sys.exit(1)
Exit1 == status' = "exit1" /\ pc' = "exited"

\* An exception nobody catches: the interpreter prints a traceback and ends
\* with a non-zero status.
Uncaught == status' = "traceback" /\ pc' = "exited"

\* Execution goes on at position p.
Goto(p) == status' = status /\ pc' = p

\* A fatal condition c occurred in stage s (history only).
Fatal(s, c) == failed' = failed \cup {s} /\ cond' = cond \cup {c}

\* Faulty variant of ToolMissing: the result of shutil.which is not looked at.
ToolMissingIgnored(present) == FALSE

\* shutil.which(tool) is None
ToolMissing(present) == ~present

\* Faulty variant of CurlFailed: only exit code 1 counts as a failure.
CurlFailedOnlyOne(returncode) == returncode = 1

\* download_file: if ret.returncode != 0
CurlFailed(returncode) == returncode # 0

\* Faulty variant of CmdFailed: the exit code of the command is not looked at.
CmdFailedIgnored(returncode) == FALSE

\* main / process_uz_files: if run_cmd(cmd) != 0
CmdFailed(returncode) == returncode # 0

\* download_file(url, dest) with curl exiting with returncode, then on to next.
download_file(url, dest, returncode, next) ==
    /\ net' = net \cup {url}
    /\ IF CurlFailed(returncode)
       THEN Exit1 /\ tree' = tree
       ELSE Goto(next) /\ tree' = tree \cup {dest}

(* ------------------------------- main() -------------------------------- *)

\* Step 0: check_7z()
check_7z ==
    /\ pc = "check_7z"
    /\ IF ToolMissing(has7z) THEN Exit1 ELSE Goto("check_curl")
    /\ cond' = IF ~has7z THEN cond \cup {"tool_missing"} ELSE cond
    /\ UNCHANGED <<envVars, dirVars, tree, iso, doc, patch_url, i, uzVars,
                   finVars, stages, failed, net>>

\* Step 0: check_curl()
check_curl ==
    /\ pc = "check_curl"
    /\ IF ToolMissing(hasCurl) THEN Exit1 ELSE Goto("create_root")
    /\ cond' = IF ~hasCurl THEN cond \cup {"tool_missing"} ELSE cond
    /\ UNCHANGED <<envVars, dirVars, tree, iso, doc, patch_url, i, uzVars,
                   finVars, stages, failed, net>>

\* Step 1: rename a pre-existing ~/UnrealTournament to a random new name, then
\* os.makedirs(base_dir).  os.rename of a directory onto an existing path:
\* an empty directory is silently replaced, a non-empty directory or a file
\* makes it raise OSError.
CreateRoot ==
    /\ pc = "create_root"
    /\ IF root = "old"
       THEN \E rand_suffix \in Suffixes :
              IF backups[rand_suffix] \in {"absent", "emptydir"}
              THEN /\ backups' = [backups EXCEPT ![rand_suffix] = "oldroot"]
                   /\ root' = "fresh"
                   /\ Goto("create_subdirs")
              ELSE /\ UNCHANGED <<root, backups>>
                   /\ Uncaught
       ELSE /\ root' = "fresh"
            /\ backups' = backups
            /\ Goto("create_subdirs")
    /\ UNCHANGED <<envVars, tree, iso, doc, patch_url, i, uzVars, finVars,
                   histVars, net>>

\* os.makedirs of Installer and System
CreateSubdirs ==
    /\ pc = "create_subdirs"
    /\ tree' = tree \cup {"Installer", "System"}
    /\ Goto("fetch_image")
    /\ UNCHANGED <<envVars, dirVars, iso, doc, patch_url, i, uzVars, finVars,
                   histVars, net>>

\* Step 2: download ut99.iso
FetchImage ==
    /\ pc = "fetch_image"
    /\ stages' = Append(stages, "fetch-image")
    /\ \E returncode \in ReturnCodes, bytes \in IsoContents :
         /\ download_file("ut99.iso", "Installer/ut99.iso", returncode, "verify")
         /\ iso' = IF returncode = 0 THEN bytes ELSE iso
         /\ IF returncode # 0
            THEN Fatal("fetch-image", "download_failed")
            ELSE UNCHANGED <<failed, cond>>
    /\ UNCHANGED <<envVars, dirVars, doc, patch_url, i, uzVars, finVars>>

\* Step 3: verify the md5sum of ut99.iso
Verify ==
    /\ pc = "verify"
    /\ stages' = Append(stages, "verify-checksum")
    /\ IF Md5Mismatch(md5sum(iso), expected) THEN Exit1 ELSE Goto("resolve")
    /\ IF md5sum(iso) # expected
       THEN Fatal("verify-checksum", "checksum_mismatch")
       ELSE UNCHANGED <<failed, cond>>
    /\ UNCHANGED <<envVars, dirVars, tree, iso, doc, patch_url, i, uzVars,
                   finVars, net>>

\* Step 4: the release metadata is fetched and the patch asset resolved.
\* requests.get / raise_for_status / json() may raise; main catches it and exits.
ResolveFrom(bodies) ==
    /\ pc = "resolve"
    /\ stages' = Append(stages, "resolve-patch")
    /\ net' = net \cup {"releases/latest"}
    /\ \E response \in {[error |-> "HTTPError"]} \cup bodies :
         IF "error" \in DOMAIN response
         THEN /\ Exit1
              /\ Fatal("resolve-patch", "metadata_unavailable")
              /\ UNCHANGED <<doc, patch_url>>
         ELSE /\ doc' = response
              /\ patch_url' = get_linux_amd64_download_url(response)
              /\ IF Not(patch_url') THEN Exit1 ELSE Goto("fetch_patch")
              /\ IF \A k \in DOMAIN Get(response, "assets", <<>>) :
                        ~In(Tag, Get(response.assets[k], "name", <<>>))
                 THEN Fatal("resolve-patch", "no_matching_asset")
                 ELSE IF Not(patch_url')
                      THEN failed' = failed \cup {"resolve-patch"} /\ cond' = cond
                      ELSE UNCHANGED <<failed, cond>>
    /\ UNCHANGED <<envVars, dirVars, tree, iso, i, uzVars, finVars>>

\* Step 4 in the end-to-end run
Resolve == ResolveFrom(MainDocs)

\* Step 4 for any release-metadata document
ResolveAny == ResolveFrom(Docs)

\* Step 4: download the patch
FetchPatch ==
    /\ pc = "fetch_patch"
    /\ stages' = Append(stages, "fetch-patch")
    /\ \E returncode \in ReturnCodes :
         /\ download_file(patch_url.value, "Installer/patch", returncode, "fetch_cfg")
         /\ IF returncode # 0
            THEN Fatal("fetch-patch", "download_failed")
            ELSE UNCHANGED <<failed, cond>>
    /\ i' = 1
    /\ UNCHANGED <<envVars, dirVars, iso, doc, patch_url, uzVars, finVars>>

\* Step 5: download the three configuration files, one per step
FetchCfg ==
    /\ pc = "fetch_cfg"
    /\ stages' = Append(stages, "fetch-config")
    /\ \E returncode \in ReturnCodes :
         /\ download_file(CfgFiles[i], "Installer/" \o CfgFiles[i], returncode,
                          IF i = Len(CfgFiles) THEN "extract_image" ELSE "fetch_cfg")
         /\ IF returncode # 0
            THEN Fatal("fetch-config", "download_failed")
            ELSE UNCHANGED <<failed, cond>>
    /\ i' = IF i = Len(CfgFiles) THEN i ELSE i + 1
    /\ UNCHANGED <<envVars, dirVars, iso, doc, patch_url, uzVars, finVars>>

\* Step 6: unpack the image with 7z; what it holds under Maps/ comes with it
ExtractImage ==
    /\ pc = "extract_image"
    /\ stages' = Append(stages, "extract-image")
    /\ \E returncode \in ReturnCodes, maps \in BOOLEAN, n \in 0..MaxUz :
         /\ maps \/ n = 0
         /\ returncode = 0 \/ (~maps /\ n = 0)
         /\ IF CmdFailed(returncode) THEN Exit1 ELSE Goto("extract_patch")
         /\ tree' = IF maps THEN tree \cup {"Maps"} ELSE tree
         /\ uzOnDisk' = n
         /\ IF returncode # 0
            THEN Fatal("extract-image", "extraction_failed")
            ELSE UNCHANGED <<failed, cond>>
    /\ UNCHANGED <<envVars, dirVars, iso, doc, patch_url, i, ucc0, uccMode,
                   chmodResult, uz_files, done, invoked, uzFailed, errLogged,
                   ret, finVars, net>>

\* Step 6: unpack the patch with the 7z pipe; System64/ and ucc come with it
ExtractPatch ==
    /\ pc = "extract_patch"
    /\ stages' = Append(stages, "extract-patch")
    /\ \E returncode \in ReturnCodes, system64 \in BOOLEAN,
          ucc \in {"missing", "noexec", "exec"} :
         /\ system64 \/ ucc = "missing"
         /\ returncode = 0 \/ ~system64
         /\ IF CmdFailed(returncode) THEN Exit1 ELSE Goto("check_system64")
         /\ tree' = IF system64 THEN tree \cup {"System64"} ELSE tree
         /\ ucc0' = ucc
         /\ uccMode' = ucc
         /\ IF returncode # 0
            THEN Fatal("extract-patch", "extraction_failed")
            ELSE UNCHANGED <<failed, cond>>
    /\ UNCHANGED <<envVars, dirVars, iso, doc, patch_url, i, uzOnDisk,
                   chmodResult, uz_files, done, invoked, uzFailed, errLogged,
                   ret, finVars, net>>

\* Step 7: System64 must exist, then process_uz_files is called
CheckSystem64 ==
    /\ pc = "check_system64"
    /\ IF "System64" \notin tree
       THEN /\ Exit1
            /\ cond' = cond \cup {"system64_missing"}
            /\ UNCHANGED <<stages, failed>>
       ELSE /\ Goto("uz_stat")
            /\ stages' = Append(stages, "batch-decompress")
            /\ UNCHANGED <<failed, cond>>
    /\ UNCHANGED <<envVars, dirVars, tree, iso, doc, patch_url, i, uzVars,
                   finVars, net>>

(* -------------------------- process_uz_files -------------------------- *)

\* Faulty variant of NeedsChmod: the mode is never repaired.
NeedsChmodNever(mode) == FALSE

\* if ucc_stat.st_mode & (S_IXUSR | S_IXOTH | S_IXGRP) == 0
NeedsChmod(mode) == mode = "noexec"

\* ucc_stat = os.stat(ucc_path): raises FileNotFoundError when ucc is missing
UzStat ==
    /\ pc = "uz_stat"
    /\ IF uccMode = "missing"
       THEN /\ ret' = Raised("FileNotFoundError")
            /\ failed' = failed \cup {"batch-decompress"}
            /\ Uncaught
       ELSE /\ ret' = ret
            /\ failed' = failed
            /\ Goto("uz_chmod")
    /\ UNCHANGED <<envVars, dirVars, tree, iso, doc, patch_url, i, uzOnDisk,
                   ucc0, uccMode, chmodResult, uz_files, done, invoked,
                   uzFailed, errLogged, finVars, stages, cond, net>>

\* Faulty variant of UzChmod: the OSError of os.chmod is not caught.
UzChmodUncaught ==
    /\ pc = "uz_chmod"
    /\ IF NeedsChmod(uccMode)
       THEN \E ok \in BOOLEAN :
              IF ok
              THEN /\ uccMode' = "exec"
                   /\ chmodResult' = "ok"
                   /\ ret' = ret
                   /\ failed' = failed
                   /\ Goto("uz_maps")
              ELSE /\ uccMode' = uccMode
                   /\ chmodResult' = "failed"
                   /\ ret' = Raised("PermissionError")
                   /\ failed' = failed \cup {"batch-decompress"}
                   /\ Uncaught
       ELSE /\ UNCHANGED <<uccMode, chmodResult, ret, failed>>
            /\ Goto("uz_maps")
    /\ UNCHANGED <<envVars, dirVars, tree, iso, doc, patch_url, i, uzOnDisk,
                   ucc0, uz_files, done, invoked, uzFailed, errLogged,
                   finVars, stages, cond, net>>

\* The executable bits are added when none is set; when os.chmod raises
\* OSError a message is printed and the function returns.
UzChmod ==
    /\ pc = "uz_chmod"
    /\ IF NeedsChmod(uccMode)
       THEN \E ok \in BOOLEAN :
              IF ok
              THEN /\ uccMode' = "exec"
                   /\ chmodResult' = "ok"
                   /\ ret' = ret
                   /\ failed' = failed
                   /\ Goto("uz_maps")
              ELSE /\ uccMode' = uccMode
                   /\ chmodResult' = "failed"
                   /\ ret' = None
                   /\ failed' = failed \cup {"batch-decompress"}
                   /\ Goto("copy_cfg")
       ELSE /\ UNCHANGED <<uccMode, chmodResult, ret, failed>>
            /\ Goto("uz_maps")
    /\ UNCHANGED <<envVars, dirVars, tree, iso, doc, patch_url, i, uzOnDisk,
                   ucc0, uz_files, done, invoked, uzFailed, errLogged,
                   finVars, stages, cond, net>>

\* if not os.path.exists(maps_dir): return
UzMaps ==
    /\ pc = "uz_maps"
    /\ IF "Maps" \notin tree
       THEN ret' = None /\ Goto("copy_cfg")
       ELSE ret' = ret /\ Goto("uz_glob")
    /\ UNCHANGED <<envVars, dirVars, tree, iso, doc, patch_url, i, uzOnDisk,
                   ucc0, uccMode, chmodResult, uz_files, done, invoked,
                   uzFailed, errLogged, finVars, histVars, net>>

\* uz_files = glob.glob(...); if total == 0: return; done = 0
UzGlob ==
    /\ pc = "uz_glob"
    /\ uz_files' = [k \in 1..uzOnDisk |-> k]
    /\ done' = 0
    /\ IF Len(uz_files') = 0
       THEN ret' = None /\ Goto("copy_cfg")
       ELSE ret' = ret /\ Goto("uz_loop")
    /\ UNCHANGED <<envVars, dirVars, tree, iso, doc, patch_url, i, uzOnDisk,
                   ucc0, uccMode, chmodResult, invoked, uzFailed, errLogged,
                   finVars, histVars, net>>

\* Faulty variant of UzLoop: the first failing file ends the loop.
UzLoopAbort ==
    /\ pc = "uz_loop"
    /\ done' = done + 1
    /\ invoked' = Append(invoked, uz_files[done'])
    /\ \E returncode \in ReturnCodes :
         /\ uzFailed' = IF returncode # 0
                        THEN uzFailed \cup {uz_files[done']} ELSE uzFailed
         /\ errLogged' = IF CmdFailed(returncode)
                         THEN errLogged \cup {uz_files[done']} ELSE errLogged
         /\ IF done' = Len(uz_files) \/ CmdFailed(returncode)
            THEN ret' = None /\ Goto("copy_cfg")
            ELSE ret' = ret /\ Goto("uz_loop")
    /\ UNCHANGED <<envVars, dirVars, tree, iso, doc, patch_url, i, uzOnDisk,
                   ucc0, uccMode, chmodResult, uz_files, finVars, histVars,
                   net>>

\* One iteration of "for uz in uz_files": ucc is run on the next file, a
\* non-zero exit is logged and the loop goes on; after the last file the
\* function falls off its end (returns None).
UzLoop ==
    /\ pc = "uz_loop"
    /\ done' = done + 1
    /\ invoked' = Append(invoked, uz_files[done'])
    /\ \E returncode \in ReturnCodes :
         /\ uzFailed' = IF returncode # 0
                        THEN uzFailed \cup {uz_files[done']} ELSE uzFailed
         /\ errLogged' = IF CmdFailed(returncode)
                         THEN errLogged \cup {uz_files[done']} ELSE errLogged
    /\ IF done' = Len(uz_files)
       THEN ret' = None /\ Goto("copy_cfg")
       ELSE ret' = ret /\ Goto("uz_loop")
    /\ UNCHANGED <<envVars, dirVars, tree, iso, doc, patch_url, i, uzOnDisk,
                   ucc0, uccMode, chmodResult, uz_files, finVars, histVars,
                   net>>

(* ---------------------------- finalization ----------------------------- *)

\* Faulty variant of CopyCfg: a failed copy ends the run with sys.exit(1).
CopyCfgFatal ==
    /\ pc = "copy_cfg"
    /\ \E outcome \in {"ok", "first_failed", "second_failed"} :
         /\ copyResult' = outcome
         /\ tree' = tree \cup
               CASE outcome = "ok" -> {"System/UnrealTournament.ini", "System/User.ini"}
                 [] outcome = "second_failed" -> {"System/UnrealTournament.ini"}
                 [] outcome = "first_failed" -> {}
         /\ IF outcome = "ok" THEN Goto("desktop") ELSE Exit1
    /\ UNCHANGED <<envVars, dirVars, iso, doc, patch_url, i, uzVars,
                   desktop_file, banner, histVars, net>>

\* Step 8: the two shutil.copy calls inside try; an exception is only logged
CopyCfg ==
    /\ pc = "copy_cfg"
    /\ \E outcome \in {"ok", "first_failed", "second_failed"} :
         /\ copyResult' = outcome
         /\ tree' = tree \cup
               CASE outcome = "ok" -> {"System/UnrealTournament.ini", "System/User.ini"}
                 [] outcome = "second_failed" -> {"System/UnrealTournament.ini"}
                 [] outcome = "first_failed" -> {}
    /\ Goto("desktop")
    /\ UNCHANGED <<envVars, dirVars, iso, doc, patch_url, i, uzVars,
                   desktop_file, banner, histVars, net>>

\* Step 9: the .desktop file is written, then made executable
Desktop ==
    /\ pc = "desktop"
    /\ desktop_file' = "executable"
    /\ Goto("banner")
    /\ UNCHANGED <<envVars, dirVars, tree, iso, doc, patch_url, i, uzVars,
                   copyResult, banner, histVars, net>>

\* The closing prints; main() returns and the interpreter exits with 0
Banner ==
    /\ pc = "banner"
    /\ banner' = TRUE
    /\ status' = "exit0"
    /\ pc' = "exited"
    /\ UNCHANGED <<envVars, dirVars, tree, iso, doc, patch_url, i, uzVars,
                   copyResult, desktop_file, histVars, net>>

process_uz_files == UzStat \/ UzChmod \/ UzMaps \/ UzGlob \/ UzLoop

main ==
    \/ check_7z \/ check_curl \/ CreateRoot \/ CreateSubdirs \/ FetchImage
    \/ Verify \/ Resolve \/ FetchPatch \/ FetchCfg \/ ExtractImage
    \/ ExtractPatch \/ CheckSystem64 \/ process_uz_files
    \/ CopyCfg \/ Desktop \/ Banner

Next == main

Spec == Init /\ [][Next]_vars

\* The checksum step alone, over all images and expected digests.
NextVerify == Verify

SpecVerify == InitVerify /\ [][NextVerify]_vars

\* The resolver step alone, over all release-metadata documents.
NextResolve == ResolveAny

SpecResolve == InitResolve /\ [][NextResolve]_vars

(* ------------------------------- claims -------------------------------- *)

Range(f) == {f[k] : k \in DOMAIN f}

\* The stages of the pipeline, in the order claimed.
PipelineOrder ==
    <<"fetch-image", "verify-checksum", "resolve-patch", "fetch-patch",
      "extract-image", "extract-patch", "batch-decompress">>

IsPipelineStage(s) == s \in Range(PipelineOrder)

\* The pipeline stages started so far (the configuration downloads left out).
Started == SelectSeq(stages, IsPipelineStage)

\* C1: the pipeline stages start only in the order fetch-image,
\* verify-checksum, resolve-patch, fetch-patch, extract-image, extract-patch,
\* batch-decompress, and once a stage has failed no later stage is started:
\* the failed stage stays the last one started.
C1_StageOrder ==
    /\ Started = SubSeq(PipelineOrder, 1, Len(Started))
    /\ \A s \in failed : stages # <<>> /\ stages[Len(stages)] = s

\* C1 witness: the image extraction failed after the four stages before it,
\* and the run is over.
C1_Witness ==
    /\ "extract-image" \in failed
    /\ pc = "exited"
    /\ Started = SubSeq(PipelineOrder, 1, 5)

\* C2: once a fatal condition has occurred (tool missing, checksum mismatch,
\* download failed, metadata unavailable or without a matching asset,
\* extraction failed, System64 missing) the process has ended there with a
\* non-zero status, and the banner is printed only when none occurred.
C2_FatalAborts ==
    /\ cond # {} => status = "exit1" /\ pc = "exited" /\ ~banner
    /\ (~has7z /\ pc # "check_7z") => status = "exit1"
    /\ (~hasCurl /\ pc \notin {"check_7z", "check_curl"}) => status = "exit1"
    /\ banner => cond = {} /\ has7z /\ hasCurl

\* C2 witness: the checksum did not match and the run ended with status 1.
C2_Witness ==
    /\ "checksum_mismatch" \in cond
    /\ md5sum(iso) # expected
    /\ status = "exit1"

\* The download location of the first descriptor of document d whose name
\* contains the tag, None when there is none.
FirstMatch(d) ==
    LET assets == Get(d, "assets", <<>>)
        hits == {k \in DOMAIN assets : In(Tag, Get(assets[k], "name", <<>>))}
    IN  IF hits = {} THEN None
        ELSE Get(assets[CHOOSE k \in hits : \A m \in hits : k <= m],
                 "browser_download_url", None)

\* C3: for every release-metadata document the resolver returns the download
\* location of the first descriptor, in document order, whose name contains
\* "Linux-amd64" (case-sensitive), and None, without an exception, when no
\* name contains it.
C3_FirstMatchWins ==
    pc # "resolve" => patch_url = FirstMatch(doc) /\ status # "traceback"

\* C3 witness: the first two descriptors both carry the tag, with different
\* locations, and the location of the first was returned.
C3_Witness ==
    /\ pc # "resolve"
    /\ Len(Get(doc, "assets", <<>>)) >= 2
    /\ In(Tag, Get(doc.assets[1], "name", <<>>))
    /\ In(Tag, Get(doc.assets[2], "name", <<>>))
    /\ Get(doc.assets[1], "browser_download_url", None) = Str("https://host/A")
    /\ Get(doc.assets[2], "browser_download_url", None) = Str("https://host/B")
    /\ patch_url = Str("https://host/A")

UzLoopReturned == uz_files # <<>> /\ ret # Pending

\* Each discovered file had the tool run on it exactly once.
EachInvokedOnce ==
    /\ Len(invoked) = Len(uz_files)
    /\ \A f \in Range(uz_files) :
          Cardinality({k \in DOMAIN invoked : invoked[k] = f}) = 1

\* C5 as claimed: with N files of which M fail, the tool is run exactly once
\* on each file and a report with processed = N and failed = M is returned.
C5_ReturnsReport ==
    UzLoopReturned =>
        /\ EachInvokedOnce
        /\ ret = [type |-> "report", processed |-> Len(uz_files),
                  failed |-> Cardinality(uzFailed)]

\* C5 amended: with N files of which M fail, the tool is run exactly once on
\* each of the N files (a failure never stops the loop), an error is logged
\* for exactly the M failing files, the loop counter ends at N, and the
\* function returns None: no report is returned.
C5_AllProcessed ==
    /\ pc = "uz_loop" => Len(invoked) = done /\ done < Len(uz_files)
    /\ UzLoopReturned =>
          /\ EachInvokedOnce
          /\ errLogged = uzFailed
          /\ done = Len(uz_files)
          /\ ret = None

\* C5 witness: three files, the first one failed, all three were processed.
C5_Witness ==
    /\ UzLoopReturned
    /\ Len(uz_files) = 3
    /\ uzFailed = {uz_files[1]}
    /\ invoked = uz_files

\* C6 as claimed: when the tool is not executable and os.chmod fails, no map
\* file is decompressed and the caller gets a PermissionError.
C6_RaisesPermissionError ==
    chmodResult = "failed" =>
        /\ invoked = <<>>
        /\ ret = Raised("PermissionError")

\* C6 amended: when the tool is not executable and os.chmod fails, no map file
\* is decompressed, but the function returns None as after a normal
\* completion: the run goes on with the configuration copy and can only end
\* with status 0 and the banner.
C6_ReturnsNormally ==
    chmodResult = "failed" =>
        /\ ucc0 = "noexec" /\ uccMode = "noexec"
        /\ invoked = <<>>
        /\ ret = None
        /\ pc \in {"copy_cfg", "desktop", "banner", "exited"}
        /\ status \in {"running", "exit0"}
        /\ pc = "exited" => status = "exit0" /\ banner

\* C6 witness: os.chmod failed with map files on disk, none was decompressed
\* and the run ended with the banner.
C6_Witness ==
    /\ chmodResult = "failed"
    /\ "Maps" \in tree
    /\ uzOnDisk > 0
    /\ invoked = <<>>
    /\ banner

\* process_uz_files has ended (returned or raised) with no Maps directory.
NoMapsEnded == "Maps" \notin tree /\ ret # Pending

\* C7 as claimed: without a Maps directory process_uz_files is a no-op for
\* every state of the tool: no error, no invocation, the tool's mode unchanged.
C7_NoOp ==
    NoMapsEnded =>
        /\ ret = None
        /\ status # "traceback"
        /\ invoked = <<>>
        /\ uccMode = ucc0

\* C7 amended: without a Maps directory the tool is never invoked; the call is
\* a no-op returning None when the tool is already executable; a tool that is
\* not executable has os.chmod tried on it first (its mode changes when that
\* succeeds); a missing tool makes os.stat raise FileNotFoundError, which ends
\* the run.
C7_NoInvocation ==
    NoMapsEnded =>
        /\ invoked = <<>>
        /\ uz_files = <<>>
        /\ ucc0 = "exec" =>
              ret = None /\ uccMode = "exec" /\ chmodResult = "none"
        /\ ucc0 = "noexec" =>
              /\ ret = None
              /\ \/ chmodResult = "ok" /\ uccMode = "exec"
                 \/ chmodResult = "failed" /\ uccMode = "noexec"
        /\ ucc0 = "missing" =>
              ret = Raised("FileNotFoundError") /\ status = "traceback"

\* C7 witness: no Maps directory, and the tool's mode was changed.
C7_Witness ==
    /\ NoMapsEnded
    /\ ucc0 = "noexec"
    /\ uccMode = "exec"
    /\ ret = None

\* C8 as claimed: when the install root exists before the run, step 1 does
\* not fail whatever suffix is drawn: the old root is found under the new
\* name, the root is fresh, and nothing that was on disk is lost.
C8_RenameNeverFails ==
    (fs0.root = "old" /\ has7z /\ hasCurl
        /\ pc \notin {"check_7z", "check_curl", "create_root"}) =>
        /\ root = "fresh"
        /\ \E s \in Suffixes : backups[s] = "oldroot"
        /\ \A s \in Suffixes :
              fs0.backups[s] # "absent" => backups[s] = fs0.backups[s]

\* C9: with 7z or curl missing the run ends with status 1 in the pre-flight
\* checks: the filesystem is as it was before the run (the old root not
\* renamed, nothing created or downloaded) and no network request was made.
C9_PreFlight ==
    (~has7z \/ ~hasCurl) =>
        /\ pc \in {"check_7z", "check_curl", "exited"}
        /\ pc = "exited" => status = "exit1"
        /\ root = fs0.root
        /\ backups = fs0.backups
        /\ tree = {}
        /\ desktop_file = "absent"
        /\ net = {}
        /\ stages = <<>>

\* C9 witness: 7z is there, curl is not, an old install root exists, and the
\* run has ended.
C9_Witness ==
    /\ has7z
    /\ ~hasCurl
    /\ fs0.root = "old"
    /\ pc = "exited"

\* C10: a failed configuration copy (first or second file) never aborts the
\* run, which can only end with the launcher written and executable, the
\* banner printed and status 0; a missing System64 directory aborts the run
\* before any copy is attempted.
C10_CopyFailureTolerated ==
    /\ copyResult \in {"first_failed", "second_failed"} =>
          /\ status \in {"running", "exit0"}
          /\ pc \in {"desktop", "banner", "exited"}
          /\ pc \in {"banner", "exited"} => desktop_file = "executable"
          /\ pc = "exited" => status = "exit0" /\ banner
    /\ copyResult # "none" => "System64" \in tree
    /\ "system64_missing" \in cond =>
          status = "exit1" /\ copyResult = "none" /\ "System64" \notin tree

\* C10 witness: the second copy failed after the first succeeded, and the run
\* ended with the banner.
C10_Witness ==
    /\ copyResult = "second_failed"
    /\ "System/UnrealTournament.ini" \in tree
    /\ "System/User.ini" \notin tree
    /\ desktop_file = "executable"
    /\ banner
    /\ status = "exit0"

====
